---- MODULE Spec2Model ----
(***************************************************************************)
(* Model of homeassistant/components/logbook/__init__.py: the logbook's    *)
(* humanization pass (_get_events, yield_rows, _humanify), the row filter  *)
(* (_keep_row), the context augmenter and the per-pass caches.             *)
(*                                                                         *)
(* Encoding of Python values:                                              *)
(*   None            the string NONE                                       *)
(*   a missing key   the string ABSENT (entries are records with every     *)
(*                   key; a key the code never set holds ABSENT)           *)
(*   a raw payload   a sequence of chunks <<key, value>>; the text of a    *)
(*                   JSON object starts with the chunk BRACES, so that     *)
(*                   "{}" (<<BRACES>>) differs from "" / NULL (<<>>)       *)
(*   a dict          a function from its keys                              *)
(***************************************************************************)
EXTENDS Integers, Sequences, FiniteSets, TLC

NONE == "<None>"
ABSENT == "<absent>"

\* Python truthiness of an optional string
Truthy(s) == s # NONE /\ s # ""

---------------------------------------------------------------------------
(* Constants of the module and of homeassistant.const *)

EVENT_STATE_CHANGED == "state_changed"
EVENT_CALL_SERVICE == "call_service"
EVENT_HOMEASSISTANT_START == "homeassistant_start"
EVENT_HOMEASSISTANT_STOP == "homeassistant_stop"
EVENT_LOGBOOK_ENTRY == "logbook_entry"
EVENT_AUTOMATION_TRIGGERED == "automation_triggered"
EVENT_SCRIPT_STARTED == "script_started"

ATTR_DOMAIN == "domain"
ATTR_ENTITY_ID == "entity_id"
ATTR_FRIENDLY_NAME == "friendly_name"
ATTR_NAME == "name"
ATTR_SERVICE == "service"
ATTR_MESSAGE == "message"
ATTR_ICON == "icon"

HA_DOMAIN == "homeassistant"
SENSOR_DOMAIN == "sensor"
HA_DOMAIN_ENTITY_ID == "homeassistant._"

HOMEASSISTANT_EVENTS == {EVENT_HOMEASSISTANT_START, EVENT_HOMEASSISTANT_STOP}

ALL_EVENT_TYPES_EXCEPT_STATE_CHANGED ==
    {EVENT_LOGBOOK_ENTRY, EVENT_CALL_SERVICE} \cup HOMEASSISTANT_EVENTS

SCRIPT_AUTOMATION_EVENTS == {EVENT_AUTOMATION_TRIGGERED, EVENT_SCRIPT_STARTED}

---------------------------------------------------------------------------
(* Raw payload strings, the regular-expression extractors and json.loads *)

BRACES == <<"{", "}">>
NullStr == <<>>

\* '"<key>": ?"([^"]+)"'.search(text): the first member of that key whose
\* value is a non-empty string; None when there is none
JsonExtract(text, key) ==
    LET hits == {i \in 1..Len(text) : text[i][1] = key /\ text[i][2] # ""}
    IN  IF hits = {} THEN NONE
        ELSE text[CHOOSE i \in hits : \A j \in hits : i <= j][2]

\* text is the text of a JSON object: json.loads(text) returns a dict, and
\* raises json.JSONDecodeError on any other non-empty text of the model
JsonValid(text) == text # <<>> /\ text[1] = BRACES

\* json.loads(text) of an object text: the mapping of its members, a later
\* member of a key replacing an earlier one
JsonLoads(text) ==
    LET keys == {text[i][1] : i \in 2..Len(text)}
    IN  [k \in keys |->
            text[CHOOSE i \in 2..Len(text) :
                    /\ text[i][1] = k
                    /\ \A j \in 2..Len(text) : text[j][1] = k => j <= i][2]]

\* dict.get(key)
DictGet(d, key) == IF key \in DOMAIN d THEN d[key] ELSE NONE

EmptyDict == [k \in {} |-> NONE]

---------------------------------------------------------------------------
(* Entity ids: homeassistant.core.split_entity_id and the strings built   *)
(* from its parts                                                          *)

EntityIds == {"light.kitchen", "sensor.power", "sensor.front_door",
              "automation.morning"}

\* split_entity_id(entity_id): <<domain, object_id>>
SplitEntityId(entity_id) ==
    CASE entity_id = "light.kitchen" -> <<"light", "kitchen">>
      [] entity_id = "sensor.power" -> <<"sensor", "power">>
      [] entity_id = "sensor.front_door" -> <<"sensor", "front_door">>
      [] entity_id = "automation.morning" -> <<"automation", "morning">>

\* object_id.replace("_", " ")
ReplaceUnderscores(object_id) ==
    CASE object_id = "front_door" -> "front door"
      [] OTHER -> object_id

\* f"{domain}._"
DomainEntityId(domain) ==
    CASE domain = "light" -> "light._"
      [] domain = "sensor" -> "sensor._"
      [] domain = "automation" -> "automation._"
      [] domain = "logbook" -> "logbook._"
      [] domain = HA_DOMAIN -> HA_DOMAIN_ENTITY_ID

---------------------------------------------------------------------------
(* The collaborators of the pass: describer registry, entity registry,    *)
(* live states and entity filters                                          *)

\* hass.data[DOMAIN]: event type -> domain of the registered describer; the
\* automation platform has registered one for automation_triggered, and a
\* platform of the logbook domain one for call_service
external_events ==
    (EVENT_AUTOMATION_TRIGGERED :> "automation")
        @@ (EVENT_CALL_SERVICE :> "logbook")

\* the describer the platforms register
DescribeEvent(event_type, event) ==
    [name |-> DictGet(event.data, ATTR_NAME),
     message |-> "has been triggered",
     entity_id |-> DictGet(event.data, ATTR_ENTITY_ID)]

\* entity registry: the entities registered with a state_class capability
StateClassEntities == {"sensor.power"}

\* hass.states: friendly_name attribute of the entities that have a state
LiveFriendlyNames == ("sensor.front_door" :> "Front Door (live)")

\* an entity filter is the set of entity ids it accepts; no filter is NoFilter
NoFilter == {NONE}
FilterAccepts(entities_filter, entity_id) == entity_id \in entities_filter

\* generate_filter([], entity_ids, [], []): accepts exactly entity_ids
GenerateFilter(entity_ids) == {entity_ids[i] : i \in 1..Len(entity_ids)}

---------------------------------------------------------------------------
(* Rows of the row source *)

MaxRows == 2

ServiceData == <<BRACES, <<ATTR_DOMAIN, "light">>, <<ATTR_SERVICE, "turn_on">>>>
AutomationData ==
    <<BRACES, <<ATTR_NAME, "Morning">>, <<ATTR_ENTITY_ID, "automation.morning">>>>
AutomationLightData ==
    <<BRACES, <<ATTR_NAME, "Kitchen">>, <<ATTR_ENTITY_ID, "light.kitchen">>>>
EmptyObjectData == <<BRACES>>
LogEntityData ==
    <<BRACES, <<ATTR_NAME, "Bell">>, <<ATTR_MESSAGE, "rang">>,
      <<ATTR_ENTITY_ID, "light.kitchen">>>>
LogDomainData ==
    <<BRACES, <<ATTR_NAME, "Bell">>, <<ATTR_MESSAGE, "rang">>,
      <<ATTR_DOMAIN, "light">>>>
NamedAttrs ==
    <<BRACES, <<ATTR_FRIENDLY_NAME, "Kitchen Light">>, <<ATTR_ICON, "mdi:lamp">>>>

\* rows selected from the states table
StateShapes ==
    {[event_type |-> EVENT_STATE_CHANGED, entity_id |-> sh[1], state |-> "on",
      shared_data |-> NullStr, shared_attrs |-> sh[2]] :
        sh \in {<<"light.kitchen", NamedAttrs>>, <<"light.kitchen", NullStr>>,
                <<"sensor.power", NullStr>>, <<"sensor.front_door", NullStr>>,
                <<NONE, NullStr>>}}

\* rows selected from the events table
EventShapes ==
    {[event_type |-> sh[1], entity_id |-> NONE, state |-> NONE,
      shared_data |-> sh[2], shared_attrs |-> NullStr] :
        sh \in {<<EVENT_CALL_SERVICE, ServiceData>>,
                <<EVENT_HOMEASSISTANT_START, NullStr>>,
                <<EVENT_HOMEASSISTANT_STOP, NullStr>>,
                <<EVENT_LOGBOOK_ENTRY, LogEntityData>>,
                <<EVENT_LOGBOOK_ENTRY, LogDomainData>>,
                <<EVENT_AUTOMATION_TRIGGERED, AutomationData>>,
                <<EVENT_AUTOMATION_TRIGGERED, AutomationLightData>>,
                <<EVENT_AUTOMATION_TRIGGERED, EmptyObjectData>>,
                <<EVENT_SCRIPT_STARTED, AutomationLightData>>}}

\* the context columns of a row
Contexts ==
    {[context_id |-> c[1], context_user_id |-> c[2], context_parent_id |-> c[3]] :
        c \in {<<NONE, NONE, NONE>>, <<"c1", "u1", NONE>>,
               <<"c2", NONE, "c1">>, <<"c1", NONE, "c2">>}}

\* the rows the row source may deliver, but for their time_fired
RowsUntimed ==
    {sh @@ c @@ [context_only |-> co] :
        sh \in StateShapes \cup EventShapes, c \in Contexts, co \in BOOLEAN}

\* a row delivered at time t
RowAt(untimed, t) == untimed @@ [time_fired |-> t]

\* None where a Row is expected
NoRow ==
    [event_type |-> NONE, entity_id |-> NONE, state |-> NONE,
     shared_data |-> NullStr, shared_attrs |-> NullStr,
     context_id |-> NONE, context_user_id |-> NONE, context_parent_id |-> NONE,
     time_fired |-> 0, context_only |-> FALSE]

---------------------------------------------------------------------------
(* Helpers on rows *)

\* _rows_match(row, other_row)
RowsMatch(row, other_row) ==
    /\ row.event_type = other_row.event_type
    /\ row.context_id = other_row.context_id
    /\ row.time_fired = other_row.time_fired

\* _row_event_data_extract(row, extractor), the extractor given by its key
RowEventDataExtract(row, key) == JsonExtract(row.shared_data, key)

\* _row_attributes_extract(row, extractor), the extractor given by its key
RowAttributesExtract(row, key) == JsonExtract(row.shared_attrs, key)

\* format_time(row): the row's time_fired, in the caller's format
FormatTime(row) == row.time_fired

\* IsSensorContinuous, were no entity found in the registry
IsSensorContinuousUnregistered(entity_id) == FALSE

\* _is_sensor_continuous(hass, entity_id)
IsSensorContinuous(entity_id) == entity_id \in StateClassEntities

\* KeepRow, were the describer's domain tried before the payload's entity id
KeepRowDomainFirst(event_type, row, entities_filter) ==
    LET Accepts(id) ==
            entities_filter = NoFilter \/ FilterAccepts(entities_filter, id)
        ByEntity(entity_id) ==
            IF Truthy(entity_id) THEN Accepts(entity_id)
            ELSE LET domain == RowEventDataExtract(row, ATTR_DOMAIN)
                 IN  domain # NONE /\ Accepts(DomainEntityId(domain))
    IN  IF event_type \in HOMEASSISTANT_EVENTS
        THEN Accepts(HA_DOMAIN_ENTITY_ID)
        ELSE IF event_type \in DOMAIN external_events
        THEN Accepts(DomainEntityId(external_events[event_type]))
        ELSE ByEntity(RowEventDataExtract(row, ATTR_ENTITY_ID))

\* KeepRow, were the absence of a filter tested before the domain
KeepRowFilterFirst(event_type, row, entities_filter) ==
    LET Accepts(id) ==
            entities_filter = NoFilter \/ FilterAccepts(entities_filter, id)
        ByDomain(domain) ==
            entities_filter = NoFilter
            \/ (domain # NONE /\ Accepts(DomainEntityId(domain)))
        ByEntity(entity_id) ==
            IF Truthy(entity_id) THEN Accepts(entity_id)
            ELSE IF event_type \in DOMAIN external_events
            THEN ByDomain(external_events[event_type])
            ELSE ByDomain(RowEventDataExtract(row, ATTR_DOMAIN))
    IN  IF event_type \in HOMEASSISTANT_EVENTS
        THEN Accepts(HA_DOMAIN_ENTITY_ID)
        ELSE ByEntity(RowEventDataExtract(row, ATTR_ENTITY_ID))

\* _keep_row(hass, event_type, row, entities_filter)
KeepRow(event_type, row, entities_filter) ==
    LET Accepts(id) ==
            entities_filter = NoFilter \/ FilterAccepts(entities_filter, id)
        ByDomain(domain) == domain # NONE /\ Accepts(DomainEntityId(domain))
        ByEntity(entity_id) ==
            IF Truthy(entity_id) THEN Accepts(entity_id)
            ELSE IF event_type \in DOMAIN external_events
            THEN ByDomain(external_events[event_type])
            ELSE ByDomain(RowEventDataExtract(row, ATTR_DOMAIN))
    IN  IF event_type \in HOMEASSISTANT_EVENTS
        THEN Accepts(HA_DOMAIN_ENTITY_ID)
        ELSE ByEntity(RowEventDataExtract(row, ATTR_ENTITY_ID))

---------------------------------------------------------------------------
(* The caches of one pass.  A cache state cs is the record                 *)
(*   names             EntityNameCache._names                              *)
(*   event_cache       EventCache.event_cache: row -> LazyEventPartialState *)
(*   event_data_cache  raw payload string -> decoded mapping               *)
(*   loads             the raw strings given to json.loads, in call order  *)
(*   raised            json.loads has raised: what is computed after it    *)
(*                     has is not observed                                 *)

\* EntityNameCacheGet, were the row's attributes tried before the live state
EntityNameCacheGetRowFirst(names, entity_id, row) ==
    LET Store(name) ==
            [name |-> name, names |-> names @@ (entity_id :> name)]
        FromLive(extracted_name) ==
            IF Truthy(extracted_name) THEN Store(extracted_name)
            ELSE IF entity_id \in DOMAIN LiveFriendlyNames
                    /\ Truthy(LiveFriendlyNames[entity_id])
            THEN Store(LiveFriendlyNames[entity_id])
            ELSE [name |-> ReplaceUnderscores(SplitEntityId(entity_id)[2]),
                  names |-> names]
    IN  IF entity_id \in DOMAIN names
        THEN [name |-> names[entity_id], names |-> names]
        ELSE FromLive(RowAttributesExtract(row, ATTR_FRIENDLY_NAME))

\* EntityNameCache.get(entity_id, row): the name returned and the cache after
EntityNameCacheGet(names, entity_id, row) ==
    LET Store(name) ==
            [name |-> name, names |-> names @@ (entity_id :> name)]
        FromRow(extracted_name) ==
            IF Truthy(extracted_name) THEN Store(extracted_name)
            ELSE [name |-> ReplaceUnderscores(SplitEntityId(entity_id)[2]),
                  names |-> names]
    IN  IF entity_id \in DOMAIN names
        THEN [name |-> names[entity_id], names |-> names]
        ELSE IF entity_id \in DOMAIN LiveFriendlyNames
                /\ Truthy(LiveFriendlyNames[entity_id])
        THEN Store(LiveFriendlyNames[entity_id])
        ELSE FromRow(RowAttributesExtract(row, ATTR_FRIENDLY_NAME))

\* LazyEventPartialState.__init__(row, event_data_cache): the object built
\* (event), the decode cache after, the strings it gave to json.loads, and
\* whether json.loads raised
LazyEventPartialState(row, event_data_cache) ==
    LET Cached(data) ==
            [event |-> [row |-> row, data |-> data],
             event_data_cache |-> event_data_cache, loaded |-> <<>>,
             raised |-> FALSE]
        Decoded(source, data) ==
            [event |-> [row |-> row, data |-> data],
             event_data_cache |->
                 [s \in DOMAIN event_data_cache \cup {source} |->
                     IF s = source THEN data ELSE event_data_cache[s]],
             loaded |-> <<source>>, raised |-> FALSE]
        Raised(source) ==
            [event |-> [row |-> row, data |-> EmptyDict],
             event_data_cache |-> event_data_cache, loaded |-> <<source>>,
             raised |-> TRUE]
    IN  IF row.shared_data = NullStr THEN Cached(EmptyDict)
        ELSE IF row.shared_data \in DOMAIN event_data_cache
                /\ event_data_cache[row.shared_data] # EmptyDict
        THEN Cached(event_data_cache[row.shared_data])
        ELSE IF ~JsonValid(row.shared_data) THEN Raised(row.shared_data)
        ELSE Decoded(row.shared_data, JsonLoads(row.shared_data))

\* EventCache.get(row): the event returned and the cache state after
EventCacheGet(cs, row) ==
    LET Made(made) ==
            [event |-> made.event,
             cs |-> IF made.raised
                    THEN [cs EXCEPT !.loads = @ \o made.loaded,
                                    !.raised = TRUE]
                    ELSE [cs EXCEPT !.event_cache = @ @@ (row :> made.event),
                                    !.event_data_cache = made.event_data_cache,
                                    !.loads = @ \o made.loaded]]
    IN  IF row \in DOMAIN cs.event_cache
        THEN [event |-> cs.event_cache[row], cs |-> cs]
        ELSE Made(LazyEventPartialState(row, cs.event_data_cache))

---------------------------------------------------------------------------
(* ContextAugmenter *)

\* ContextLookupSetDefault, were the row assigned: the last row wins
ContextLookupAssign(lookup, row) ==
    [c \in DOMAIN lookup \cup {row.context_id} |->
        IF c = row.context_id THEN row ELSE lookup[c]]

\* context_lookup.setdefault(row.context_id, row)
ContextLookupSetDefault(lookup, row) ==
    IF row.context_id \in DOMAIN lookup THEN lookup
    ELSE lookup @@ (row.context_id :> row)

\* context_lookup.get(context_id)
ContextLookupGet(lookup, context_id) ==
    IF context_id \in DOMAIN lookup THEN lookup[context_id] ELSE NoRow

\* ContextRowOf, were the row not compared with the row found
ContextRowOfUnchecked(lookup, row) ==
    IF row.context_id \in DOMAIN lookup THEN lookup[row.context_id] ELSE NoRow

\* ContextRowOf, were the parent of the parent row followed too
ContextRowOfTwoHops(lookup, row) ==
    LET Grand(parent_row, grand_row) ==
            IF grand_row = NoRow THEN parent_row ELSE grand_row
        Parent(parent_row) ==
            IF parent_row = NoRow THEN NoRow
            ELSE IF RowsMatch(row, parent_row) THEN NoRow
            ELSE IF ~Truthy(parent_row.context_parent_id) THEN parent_row
            ELSE Grand(parent_row,
                       ContextLookupGet(lookup, parent_row.context_parent_id))
        Own(context_row) ==
            IF context_row = NoRow THEN NoRow
            ELSE IF ~RowsMatch(row, context_row) THEN context_row
            ELSE IF ~Truthy(row.context_parent_id) THEN NoRow
            ELSE Parent(ContextLookupGet(lookup, row.context_parent_id))
    IN  Own(ContextLookupGet(lookup, row.context_id))

\* augment, lines 549-564: the context row the attribution is taken from, or
\* NoRow where augment returns before attributing
ContextRowOf(lookup, row) ==
    LET Parent(parent_row) ==
            IF parent_row = NoRow THEN NoRow
            ELSE IF RowsMatch(row, parent_row) THEN NoRow
            ELSE parent_row
        Own(context_row) ==
            IF context_row = NoRow THEN NoRow
            ELSE IF ~RowsMatch(row, context_row) THEN context_row
            ELSE IF ~Truthy(row.context_parent_id) THEN NoRow
            ELSE Parent(ContextLookupGet(lookup, row.context_parent_id))
    IN  Own(ContextLookupGet(lookup, row.context_id))

\* WithContextUserId, were the context-id copied in place of the user id
WithContextUserIdMistaken(data, row) ==
    IF Truthy(row.context_user_id)
    THEN [data EXCEPT !.context_user_id = row.context_id]
    ELSE data

\* augment, lines 546-547
WithContextUserId(data, row) ==
    IF Truthy(row.context_user_id)
    THEN [data EXCEPT !.context_user_id = row.context_user_id]
    ELSE data

\* augment, lines 569-575: the context row is a state change
AugmentFromState(data, context_row, cs) ==
    LET Named(got) ==
            [data |-> [data EXCEPT
                          !.context_entity_id = context_row.entity_id,
                          !.context_entity_id_name = got.name,
                          !.context_event_type = context_row.event_type],
             cs |-> [cs EXCEPT !.names = got.names]]
    IN  Named(EntityNameCacheGet(cs.names, context_row.entity_id, context_row))

\* AugmentFromService, were the two payload keys exchanged
AugmentFromServiceExchanged(data, context_row, cs) ==
    LET Decoded(got) ==
            [data |-> [data EXCEPT
                          !.context_domain = DictGet(got.event.data, ATTR_SERVICE),
                          !.context_service =
                              DictGet(got.event.data, ATTR_DOMAIN),
                          !.context_event_type = context_row.event_type],
             cs |-> got.cs]
    IN  Decoded(EventCacheGet(cs, context_row))

\* augment, lines 578-584: the context row is a service call
AugmentFromService(data, context_row, cs) ==
    LET Decoded(got) ==
            [data |-> [data EXCEPT
                          !.context_domain = DictGet(got.event.data, ATTR_DOMAIN),
                          !.context_service =
                              DictGet(got.event.data, ATTR_SERVICE),
                          !.context_event_type = context_row.event_type],
             cs |-> got.cs]
    IN  Decoded(EventCacheGet(cs, context_row))

\* AugmentFromEvent, were an entity attributed to its own automation or
\* script
AugmentFromEventOwnTrigger(data, entity_id, context_row, cs) ==
    LET event_type == context_row.event_type
        Described(data2, got, name) ==
            [data |-> IF Truthy(name)
                      THEN [data2 EXCEPT
                               !.context_domain = external_events[event_type],
                               !.context_name = name]
                      ELSE [data2 EXCEPT
                               !.context_domain = external_events[event_type]],
             cs |-> got.cs]
        Event(data2, got) ==
            Described(data2, got, DescribeEvent(event_type, got.event).name)
        Named(attr_entity_id, named) ==
            IF event_type \in DOMAIN external_events
            THEN Event([data EXCEPT
                           !.context_entity_id = attr_entity_id,
                           !.context_entity_id_name = named.name,
                           !.context_event_type = event_type],
                       EventCacheGet([cs EXCEPT !.names = named.names],
                                     context_row))
            ELSE [data |-> [data EXCEPT
                               !.context_entity_id = attr_entity_id,
                               !.context_entity_id_name = named.name,
                               !.context_event_type = event_type],
                  cs |-> [cs EXCEPT !.names = named.names]]
        Extracted(attr_entity_id) ==
            IF attr_entity_id = NONE
            THEN [data |-> data, cs |-> cs]
            ELSE Named(attr_entity_id,
                       EntityNameCacheGet(cs.names, attr_entity_id, context_row))
    IN  IF ~Truthy(entity_id) THEN [data |-> data, cs |-> cs]
        ELSE Extracted(RowEventDataExtract(context_row, ATTR_ENTITY_ID))

\* AugmentFromEvent, were an entry without entity id attributed too
AugmentFromEventAnyEntry(data, entity_id, context_row, cs) ==
    LET event_type == context_row.event_type
        Described(data2, got, name) ==
            [data |-> IF Truthy(name)
                      THEN [data2 EXCEPT
                               !.context_domain = external_events[event_type],
                               !.context_name = name]
                      ELSE [data2 EXCEPT
                               !.context_domain = external_events[event_type]],
             cs |-> got.cs]
        Event(data2, got) ==
            Described(data2, got, DescribeEvent(event_type, got.event).name)
        Named(attr_entity_id, named) ==
            IF event_type \in DOMAIN external_events
            THEN Event([data EXCEPT
                           !.context_entity_id = attr_entity_id,
                           !.context_entity_id_name = named.name,
                           !.context_event_type = event_type],
                       EventCacheGet([cs EXCEPT !.names = named.names],
                                     context_row))
            ELSE [data |-> [data EXCEPT
                               !.context_entity_id = attr_entity_id,
                               !.context_entity_id_name = named.name,
                               !.context_event_type = event_type],
                  cs |-> [cs EXCEPT !.names = named.names]]
        Extracted(attr_entity_id) ==
            IF attr_entity_id = NONE
               \/ (event_type \in SCRIPT_AUTOMATION_EVENTS
                   /\ attr_entity_id = entity_id)
            THEN [data |-> data, cs |-> cs]
            ELSE Named(attr_entity_id,
                       EntityNameCacheGet(cs.names, attr_entity_id, context_row))
    IN  Extracted(RowEventDataExtract(context_row, ATTR_ENTITY_ID))

\* augment, lines 586-606: the context row is another event
AugmentFromEvent(data, entity_id, context_row, cs) ==
    LET event_type == context_row.event_type
        Described(data2, got, name) ==
            [data |-> IF Truthy(name)
                      THEN [data2 EXCEPT
                               !.context_domain = external_events[event_type],
                               !.context_name = name]
                      ELSE [data2 EXCEPT
                               !.context_domain = external_events[event_type]],
             cs |-> got.cs]
        Event(data2, got) ==
            Described(data2, got, DescribeEvent(event_type, got.event).name)
        Named(attr_entity_id, named) ==
            IF event_type \in DOMAIN external_events
            THEN Event([data EXCEPT
                           !.context_entity_id = attr_entity_id,
                           !.context_entity_id_name = named.name,
                           !.context_event_type = event_type],
                       EventCacheGet([cs EXCEPT !.names = named.names],
                                     context_row))
            ELSE [data |-> [data EXCEPT
                               !.context_entity_id = attr_entity_id,
                               !.context_entity_id_name = named.name,
                               !.context_event_type = event_type],
                  cs |-> [cs EXCEPT !.names = named.names]]
        Extracted(attr_entity_id) ==
            IF attr_entity_id = NONE
               \/ (event_type \in SCRIPT_AUTOMATION_EVENTS
                   /\ attr_entity_id = entity_id)
            THEN [data |-> data, cs |-> cs]
            ELSE Named(attr_entity_id,
                       EntityNameCacheGet(cs.names, attr_entity_id, context_row))
    IN  IF ~Truthy(entity_id) THEN [data |-> data, cs |-> cs]
        ELSE Extracted(RowEventDataExtract(context_row, ATTR_ENTITY_ID))

\* augment, lines 566-606: the attribution to context_row
AugmentFrom(data, entity_id, context_row, cs) ==
    IF context_row = NoRow THEN [data |-> data, cs |-> cs]
    ELSE IF Truthy(context_row.entity_id)
    THEN AugmentFromState(data, context_row, cs)
    ELSE IF context_row.event_type = EVENT_CALL_SERVICE
    THEN AugmentFromService(data, context_row, cs)
    ELSE AugmentFromEvent(data, entity_id, context_row, cs)

\* ContextAugmenter.augment(data, entity_id, row): the entry and the cache
\* state after
Augment(data, entity_id, row, lookup, cs) ==
    AugmentFrom(WithContextUserId(data, row), entity_id,
                ContextRowOf(lookup, row), cs)

---------------------------------------------------------------------------
(* _humanify: the entry built for one row *)

\* an entry with no key set
NoEntry ==
    [when |-> 0, name |-> ABSENT, message |-> ABSENT, state |-> ABSENT,
     entity_id |-> ABSENT, domain |-> ABSENT, icon |-> ABSENT,
     context_user_id |-> ABSENT, context_entity_id |-> ABSENT,
     context_entity_id_name |-> ABSENT, context_event_type |-> ABSENT,
     context_domain |-> ABSENT, context_service |-> ABSENT,
     context_name |-> ABSENT]

\* what one turn of the loop of _humanify does: failed (the assertion on
\* entity_id failed, or json.loads raised), yields (an entry is yielded),
\* data (the entry), asked (the entity ids given to _is_sensor_continuous),
\* and the caches after
Turn(failed, yields, aug, continuous) ==
    [failed |-> failed \/ aug.cs.raised,
     yields |-> yields /\ ~aug.cs.raised, data |-> aug.data,
     continuous |-> continuous, asked |-> <<>>, cs |-> aug.cs]

\* lines 377-387: the entry of a state change that is not skipped
StateChangedEntry(row, lookup, cs) ==
    LET Built(named, icon) ==
            Augment([NoEntry EXCEPT
                        !.when = FormatTime(row),
                        !.name = named.name,
                        !.state = row.state,
                        !.entity_id = row.entity_id,
                        !.icon = IF Truthy(icon) THEN icon ELSE ABSENT],
                    row.entity_id, row, lookup,
                    [cs EXCEPT !.names = named.names])
    IN  Built(EntityNameCacheGet(cs.names, row.entity_id, row),
              RowAttributesExtract(row, ATTR_ICON))

\* HumanifyStateChanged, were a row without entity id passed over
HumanifyStateChangedLenient(row, lookup, continuous, cs) ==
    LET Classified(is_continuous, continuous1) ==
            IF is_continuous
            THEN Turn(FALSE, FALSE, [data |-> NoEntry, cs |-> cs], continuous1)
            ELSE Turn(FALSE, TRUE, StateChangedEntry(row, lookup, cs),
                      continuous1)
        Ask(is_continuous) ==
            [Classified(is_continuous,
                        continuous @@ (row.entity_id :> is_continuous))
                EXCEPT !.asked = <<row.entity_id>>]
    IN  IF row.entity_id = NONE
        THEN Turn(FALSE, FALSE, [data |-> NoEntry, cs |-> cs], continuous)
        ELSE IF row.entity_id \in DOMAIN continuous
        THEN Classified(continuous[row.entity_id], continuous)
        ELSE IF SplitEntityId(row.entity_id)[1] = SENSOR_DOMAIN
        THEN Ask(IsSensorContinuous(row.entity_id))
        ELSE Classified(FALSE, continuous)

\* HumanifyStateChanged, were the registry's answer not kept
HumanifyStateChangedForgetful(row, lookup, continuous, cs) ==
    LET Classified(is_continuous, continuous1) ==
            IF is_continuous
            THEN Turn(FALSE, FALSE, [data |-> NoEntry, cs |-> cs], continuous1)
            ELSE Turn(FALSE, TRUE, StateChangedEntry(row, lookup, cs),
                      continuous1)
        Ask(is_continuous) ==
            [Classified(is_continuous, continuous)
                EXCEPT !.asked = <<row.entity_id>>]
    IN  IF row.entity_id = NONE
        THEN Turn(TRUE, FALSE, [data |-> NoEntry, cs |-> cs], continuous)
        ELSE IF row.entity_id \in DOMAIN continuous
        THEN Classified(continuous[row.entity_id], continuous)
        ELSE IF SplitEntityId(row.entity_id)[1] = SENSOR_DOMAIN
        THEN Ask(IsSensorContinuous(row.entity_id))
        ELSE Classified(FALSE, continuous)

\* lines 365-387
HumanifyStateChanged(row, lookup, continuous, cs) ==
    LET Classified(is_continuous, continuous1) ==
            IF is_continuous
            THEN Turn(FALSE, FALSE, [data |-> NoEntry, cs |-> cs], continuous1)
            ELSE Turn(FALSE, TRUE, StateChangedEntry(row, lookup, cs),
                      continuous1)
        Ask(is_continuous) ==
            [Classified(is_continuous,
                        continuous @@ (row.entity_id :> is_continuous))
                EXCEPT !.asked = <<row.entity_id>>]
    IN  IF row.entity_id = NONE
        THEN Turn(TRUE, FALSE, [data |-> NoEntry, cs |-> cs], continuous)
        ELSE IF row.entity_id \in DOMAIN continuous
        THEN Classified(continuous[row.entity_id], continuous)
        ELSE IF SplitEntityId(row.entity_id)[1] = SENSOR_DOMAIN
        THEN Ask(IsSensorContinuous(row.entity_id))
        ELSE Classified(FALSE, continuous)

\* lines 389-395
HumanifyExternal(row, lookup, continuous, cs) ==
    LET Described(got, described) ==
            Augment([NoEntry EXCEPT
                        !.name = described.name,
                        !.message = described.message,
                        !.entity_id = described.entity_id,
                        !.when = FormatTime(row),
                        !.domain = external_events[row.event_type]],
                    described.entity_id, row, lookup, got.cs)
        Got(got) == Described(got, DescribeEvent(row.event_type, got.event))
    IN  Turn(FALSE, TRUE, Got(EventCacheGet(cs, row)), continuous)

\* HumanifyHomeAssistant, were its entry augmented like the others
HumanifyHomeAssistantAugmented(row, lookup, continuous, cs) ==
    Turn(FALSE, TRUE,
         Augment([NoEntry EXCEPT
                     !.when = FormatTime(row),
                     !.name = "Home Assistant",
                     !.message = IF row.event_type = EVENT_HOMEASSISTANT_START
                                 THEN "started" ELSE "stopped",
                     !.domain = HA_DOMAIN],
                 NONE, row, lookup, cs),
         continuous)

\* lines 397-410
HumanifyHomeAssistant(row, lookup, continuous, cs) ==
    Turn(FALSE, TRUE,
         [data |-> [NoEntry EXCEPT
                       !.when = FormatTime(row),
                       !.name = "Home Assistant",
                       !.message = IF row.event_type = EVENT_HOMEASSISTANT_START
                                   THEN "started" ELSE "stopped",
                       !.domain = HA_DOMAIN],
          cs |-> cs],
         continuous)

\* lines 412-429
HumanifyLogbookEntry(row, lookup, continuous, cs) ==
    LET Built(got, domain, entity_id) ==
            Augment([NoEntry EXCEPT
                        !.when = FormatTime(row),
                        !.name = DictGet(got.event.data, ATTR_NAME),
                        !.message = DictGet(got.event.data, ATTR_MESSAGE),
                        !.domain = IF domain = NONE /\ entity_id # NONE
                                   THEN SplitEntityId(entity_id)[1]
                                   ELSE domain,
                        !.entity_id = entity_id],
                    entity_id, row, lookup, got.cs)
        Got(got) == Built(got, DictGet(got.event.data, ATTR_DOMAIN),
                          DictGet(got.event.data, ATTR_ENTITY_ID))
    IN  Turn(FALSE, TRUE, Got(EventCacheGet(cs, row)), continuous)

\* the body of the loop of _humanify for one row, lines 364-429
Humanify(row, lookup, continuous, cs) ==
    IF row.event_type = EVENT_STATE_CHANGED
    THEN HumanifyStateChanged(row, lookup, continuous, cs)
    ELSE IF row.event_type \in DOMAIN external_events
    THEN HumanifyExternal(row, lookup, continuous, cs)
    ELSE IF row.event_type \in HOMEASSISTANT_EVENTS
    THEN HumanifyHomeAssistant(row, lookup, continuous, cs)
    ELSE IF row.event_type = EVENT_LOGBOOK_ENTRY
    THEN HumanifyLogbookEntry(row, lookup, continuous, cs)
    ELSE Turn(FALSE, FALSE, [data |-> NoEntry, cs |-> cs], continuous)

\* YieldsRow, were service calls left to the row filter like other events
YieldsRowServiceCallsToo(row, entities_filter) ==
    /\ ~row.context_only
    /\ \/ row.event_type = EVENT_STATE_CHANGED
       \/ KeepRow(row.event_type, row, entities_filter)

\* YieldsRow, were context-only rows not passed over
YieldsRowContextOnlyToo(row, entities_filter) ==
    /\ row.event_type # EVENT_CALL_SERVICE
    /\ \/ row.event_type = EVENT_STATE_CHANGED
       \/ KeepRow(row.event_type, row, entities_filter)

\* yield_rows, lines 468-474: whether the row is handed to _humanify
YieldsRow(row, entities_filter) ==
    /\ ~row.context_only
    /\ row.event_type # EVENT_CALL_SERVICE
    /\ \/ row.event_type = EVENT_STATE_CHANGED
       \/ KeepRow(row.event_type, row, entities_filter)

---------------------------------------------------------------------------
(* State *)

VARIABLES
    pc,                 \* where the request is
    entity_ids,         \* the request's entity_ids (<<>>: None)
    context_id,         \* the request's context_id
    entities_filter,    \* the filter _keep_row is given
    context_lookup,     \* context_lookup of _get_events
    names,              \* EntityNameCache._names
    continuous_sensors, \* continuous_sensors of _humanify
    registry_queries,   \* the entity ids given to _is_sensor_continuous so far
    event_cache,        \* EventCache.event_cache
    event_data_cache,   \* event_data_cache of _get_events
    loads,              \* the raw strings given to json.loads so far
    rows,               \* the rows the row source has delivered so far
    row,                \* the row yield_rows has yielded to _humanify
    out,                \* the entries _humanify has yielded so far
    src,                \* for each entry of out, the position in rows of its row
    response,           \* what the request returned
    run,                \* 1 in the first invocation, 2 in its repetition
    tape,               \* the rows the first invocation was given
    first,              \* what the first invocation produced
    keep_args,          \* the arguments of a call of _keep_row
    kept,               \* what that call returned
    name_args,          \* the arguments of a call of EntityNameCache.get
    named,              \* the name that call returned
    first_named,        \* per entity id, the name its first call returned
    aug_args,           \* the arguments of a call of ContextAugmenter.augment
    aug_result,         \* what that call left
    ev_row,             \* the row of a call of EventCache.get
    data_read           \* the rows whose event has had its data read

passvars == <<pc, entity_ids, context_id, entities_filter, context_lookup,
              names, continuous_sensors, registry_queries, event_cache,
              event_data_cache, loads, rows, row, out, src, response>>
runvars == <<run, tape, first>>
keepvars == <<keep_args, kept>>
namevars == <<name_args, named, first_named>>
augvars == <<aug_args, aug_result>>
eventvars == <<ev_row, data_read>>
unitvars == <<keepvars, namevars, augvars, eventvars>>
vars == <<passvars, runvars, unitvars>>

\* the values a request may give entity_ids and context_id
EntityIdsArgs == {<<>>, <<"light.kitchen">>}
ContextIdArgs == {NONE, "c1"}

\* the configured filter, hass.data[LOGBOOK_ENTITIES_FILTER]
LOGBOOK_ENTITIES_FILTER == NoFilter

EmptyLookup == (NONE :> NoRow)
EmptyMap == [k \in {} |-> NONE]

\* EntityNameCacheInit, were the names kept from one invocation to the next
EntityNameCacheShared == names

\* EntityNameCache.__init__: _names
EntityNameCacheInit == EmptyMap

\* EventCache.__init__: event_cache
EventCacheInit == EmptyMap

Caches ==
    [names |-> names, event_cache |-> event_cache,
     event_data_cache |-> event_data_cache, loads |-> loads,
     raised |-> FALSE]

NoKeepArgs == [event_type |-> NONE, shared_data |-> NullStr, filter |-> NoFilter]

NoNameArgs == [entity_id |-> NONE, shared_attrs |-> NullStr, names |-> EmptyMap]

\* no call of EntityNameCache.get has been made on its own
InitNoNames ==
    /\ name_args = NoNameArgs
    /\ named = "unset"
    /\ first_named = EmptyMap

InitPass ==
    /\ pc = "idle"
    /\ entity_ids = <<>>
    /\ context_id = NONE
    /\ entities_filter = NoFilter
    /\ context_lookup = EmptyLookup
    /\ names = EmptyMap
    /\ continuous_sensors = EmptyMap
    /\ registry_queries = <<>>
    /\ event_cache = EmptyMap
    /\ event_data_cache = EmptyMap
    /\ loads = <<>>
    /\ rows = <<>>
    /\ row = NoRow
    /\ out = <<>>
    /\ src = <<>>
    /\ response = "none"
    /\ run = 1
    /\ tape = <<>>
    /\ first = [out |-> <<>>, response |-> "none"]

NoAugArgs == [entity_id |-> NONE, row |-> NoRow, context_row |-> NoRow]

NoAugResult == [called |-> FALSE, data |-> NoEntry, raised |-> FALSE]

\* no call of ContextAugmenter.augment has been made on its own
InitNoAugment ==
    /\ aug_args = NoAugArgs
    /\ aug_result = NoAugResult

\* no call of EventCache.get has been made on its own
InitNoEvent ==
    /\ ev_row = NoRow
    /\ data_read = {}

Init ==
    /\ InitPass
    /\ keep_args = NoKeepArgs
    /\ kept = "unset"
    /\ InitNoNames
    /\ InitNoAugment
    /\ InitNoEvent

\* ArgumentsAllowed, were there no assertion
ArgumentsNotChecked(ids, ctx) == TRUE

\* the assertion of _get_events, lines 443-445, holds
ArgumentsAllowed(ids, ctx) == ~(ids # <<>> /\ Truthy(ctx))

\* _get_events up to the query, lines 443-481, and the start of _humanify,
\* lines 358-360
GetEvents(ids, ctx) ==
    /\ entity_ids' = ids
    /\ context_id' = ctx
    /\ rows' = <<>>
    /\ row' = NoRow
    /\ out' = <<>>
    /\ src' = <<>>
    /\ loads' = <<>>
    /\ registry_queries' = <<>>
    /\ IF ~ArgumentsAllowed(ids, ctx)
       THEN /\ pc' = "failed"
            /\ response' = "AssertionError"
            /\ UNCHANGED <<entities_filter, context_lookup, names,
                           continuous_sensors, event_cache, event_data_cache>>
       ELSE /\ pc' = "rows"
            /\ response' = "none"
            /\ names' = EntityNameCacheInit
            /\ event_data_cache' = EmptyMap
            /\ context_lookup' = EmptyLookup
            /\ event_cache' = EventCacheInit
            /\ continuous_sensors' = EmptyMap
            /\ entities_filter' = IF ids # <<>> THEN GenerateFilter(ids)
                                  ELSE LOGBOOK_ENTITIES_FILTER

\* LogbookView.get, lines 318-342
LogbookViewGet ==
    /\ pc = "idle"
    /\ \E ids \in EntityIdsArgs, ctx \in ContextIdArgs :
          IF ids # <<>> /\ Truthy(ctx)
          THEN /\ pc' = "failed"
               /\ response' = "BAD_REQUEST"
               /\ entity_ids' = ids
               /\ context_id' = ctx
               /\ UNCHANGED <<entities_filter, context_lookup, names,
                              continuous_sensors, registry_queries,
                              event_cache, event_data_cache, loads, rows, row,
                              out, src>>
          ELSE GetEvents(ids, ctx)
    /\ UNCHANGED <<runvars, unitvars>>

\* ws_get_events, lines 244-260
WsGetEvents ==
    /\ pc = "idle"
    /\ \E ids \in EntityIdsArgs, ctx \in ContextIdArgs : GetEvents(ids, ctx)
    /\ UNCHANGED <<runvars, unitvars>>

\* the time of the last row delivered
LastTime == IF rows = <<>> THEN 1 ELSE rows[Len(rows)].time_fired

\* FetchRow, were the scan one row ahead of the row it yields, the row
\* ahead being a service call
FetchRowScanningAhead(r) ==
    /\ rows' = Append(rows, r)
    /\ \E u \in {v \in RowsUntimed : /\ v.event_type = EVENT_CALL_SERVICE
                                     /\ ~v.context_only} :
          context_lookup' =
              ContextLookupSetDefault(
                  ContextLookupSetDefault(context_lookup, r),
                  RowAt(u, r.time_fired + 1))
    /\ IF YieldsRow(r, entities_filter)
       THEN pc' = "humanify" /\ row' = r
       ELSE pc' = "rows" /\ row' = row
    /\ UNCHANGED <<entity_ids, context_id, entities_filter, names,
                   continuous_sensors, registry_queries, event_cache,
                   event_data_cache, loads, out, src, response>>

\* yield_rows, lines 466-475: one turn of its loop on the next row r
FetchRow(r) ==
    /\ rows' = Append(rows, r)
    /\ context_lookup' = ContextLookupSetDefault(context_lookup, r)
    /\ IF YieldsRow(r, entities_filter)
       THEN pc' = "humanify" /\ row' = r
       ELSE pc' = "rows" /\ row' = row
    /\ UNCHANGED <<entity_ids, context_id, entities_filter, names,
                   continuous_sensors, registry_queries, event_cache,
                   event_data_cache, loads, out, src, response>>

\* the row source delivers its next row, in time_fired order
NextRow ==
    /\ pc = "rows"
    /\ run = 1
    /\ Len(rows) < MaxRows
    /\ \E u \in RowsUntimed :
          \E t \in LastTime..(LastTime + (IF rows = <<>> THEN 0 ELSE 1)) :
              FetchRow(RowAt(u, t))
    /\ UNCHANGED <<runvars, unitvars>>

\* HumanifyRow, were the newest entry put first
HumanifyRowNewestFirst ==
    /\ pc = "humanify"
    /\ \E h \in {Humanify(row, context_lookup, continuous_sensors, Caches)} :
           /\ pc' = IF h.failed THEN "failed" ELSE "rows"
           /\ response' = IF h.cs.raised THEN "JSONDecodeError"
                          ELSE IF h.failed THEN "AssertionError"
                          ELSE response
           /\ out' = IF h.yields THEN <<h.data>> \o out ELSE out
           /\ src' = IF h.yields THEN <<Len(rows)>> \o src ELSE src
           /\ continuous_sensors' = h.continuous
           /\ registry_queries' = registry_queries \o h.asked
           /\ names' = h.cs.names
           /\ event_cache' = h.cs.event_cache
           /\ event_data_cache' = h.cs.event_data_cache
           /\ loads' = h.cs.loads
    /\ UNCHANGED <<entity_ids, context_id, entities_filter, context_lookup,
                   rows, row, runvars, unitvars>>

\* _humanify, lines 363-429: one turn of its loop on the yielded row
HumanifyRow ==
    /\ pc = "humanify"
    /\ \E h \in {Humanify(row, context_lookup, continuous_sensors, Caches)} :
           /\ pc' = IF h.failed THEN "failed" ELSE "rows"
           /\ response' = IF h.cs.raised THEN "JSONDecodeError"
                          ELSE IF h.failed THEN "AssertionError"
                          ELSE response
           /\ out' = IF h.yields THEN Append(out, h.data) ELSE out
           /\ src' = IF h.yields THEN Append(src, Len(rows)) ELSE src
           /\ continuous_sensors' = h.continuous
           /\ registry_queries' = registry_queries \o h.asked
           /\ names' = h.cs.names
           /\ event_cache' = h.cs.event_cache
           /\ event_data_cache' = h.cs.event_data_cache
           /\ loads' = h.cs.loads
    /\ UNCHANGED <<entity_ids, context_id, entities_filter, context_lookup,
                   rows, row, runvars, unitvars>>

\* the row source is exhausted: list(...) returns, line 490
Return ==
    /\ pc = "rows"
    /\ run = 1 \/ Len(rows) = Len(tape)
    /\ pc' = "done"
    /\ response' = "entries"
    /\ UNCHANGED <<entity_ids, context_id, entities_filter, context_lookup,
                   names, continuous_sensors, registry_queries, event_cache,
                   event_data_cache, loads, rows, row, out, src, runvars,
                   unitvars>>

Next == LogbookViewGet \/ WsGetEvents \/ NextRow \/ HumanifyRow \/ Return

Spec == Init /\ [][Next]_vars

---------------------------------------------------------------------------
(* The same request made a second time, on the same rows *)

\* _get_events is called again with the arguments and the rows of the
\* invocation that has ended
Again ==
    /\ run = 1
    /\ pc \in {"done", "failed"}
    /\ response # "BAD_REQUEST"
    /\ run' = 2
    /\ tape' = rows
    /\ first' = [out |-> out, response |-> response]
    /\ GetEvents(entity_ids, context_id)
    /\ UNCHANGED unitvars

\* the row source delivers the row it delivered the first time
ReplayRow ==
    /\ pc = "rows"
    /\ run = 2
    /\ Len(rows) < Len(tape)
    /\ FetchRow(tape[Len(rows) + 1])
    /\ UNCHANGED <<runvars, unitvars>>

NextTwice == Next \/ Again \/ ReplayRow

SpecTwice == Init /\ [][NextTwice]_vars

---------------------------------------------------------------------------
(* _keep_row applied to the rows yield_rows may pass to it *)

KeepEventTypes ==
    {EVENT_HOMEASSISTANT_START, EVENT_HOMEASSISTANT_STOP, EVENT_LOGBOOK_ENTRY,
     EVENT_AUTOMATION_TRIGGERED, EVENT_SCRIPT_STARTED}

KeepPayloads ==
    {NullStr, EmptyObjectData, ServiceData, AutomationData,
     AutomationLightData, LogEntityData, LogDomainData}

KeepFilters ==
    {NoFilter, {}, {"light.kitchen"}, {HA_DOMAIN_ENTITY_ID}, {"light._"},
     {"light._", "automation._"}, {"automation.morning", "logbook._"}}

InitKeep ==
    /\ InitPass
    /\ keep_args \in [event_type : KeepEventTypes, shared_data : KeepPayloads,
                      filter : KeepFilters]
    /\ kept = "unset"
    /\ InitNoNames
    /\ InitNoAugment
    /\ InitNoEvent

\* yield_rows, line 473: the call of _keep_row
CallKeepRow ==
    /\ kept = "unset"
    /\ kept' = IF KeepRow(keep_args.event_type,
                          [NoRow EXCEPT !.event_type = keep_args.event_type,
                                        !.shared_data = keep_args.shared_data],
                          keep_args.filter)
               THEN "keep" ELSE "drop"
    /\ UNCHANGED <<passvars, runvars, keep_args, namevars, augvars, eventvars>>

NextKeep == CallKeepRow

SpecKeep == InitKeep /\ [][NextKeep]_vars

---------------------------------------------------------------------------
(* EntityNameCache.get called again and again on one cache *)

\* the entity ids looked up
NameEntities == {"light.kitchen", "sensor.front_door", "sensor.power"}

OtherNamedAttrs == <<BRACES, <<ATTR_FRIENDLY_NAME, "Cooker Light">>>>

\* the attribute payloads of the rows given
NameAttrs == {NullStr, EmptyObjectData, NamedAttrs, OtherNamedAttrs}

\* a call of EntityNameCache.get(entity_id, row), as augment and _humanify
\* make it, on the cache the calls before it have left
CallNameGet ==
    /\ \E e \in NameEntities, a \in NameAttrs :
          \E got \in {EntityNameCacheGet(names, e,
                          [NoRow EXCEPT !.event_type = EVENT_STATE_CHANGED,
                                        !.entity_id = e,
                                        !.shared_attrs = a])} :
              /\ name_args' = [entity_id |-> e, shared_attrs |-> a,
                               names |-> names]
              /\ named' = got.name
              /\ names' = got.names
              /\ first_named' = IF e \in DOMAIN first_named THEN first_named
                                ELSE first_named @@ (e :> got.name)
    /\ UNCHANGED <<pc, entity_ids, context_id, entities_filter,
                   context_lookup, continuous_sensors, registry_queries,
                   event_cache, event_data_cache, loads, rows, row, out, src,
                   response, runvars, keepvars, augvars, eventvars>>

NextNames == CallNameGet

SpecNames == Init /\ [][NextNames]_vars

---------------------------------------------------------------------------
(* ContextAugmenter.augment applied to a row, the context lookup holding   *)
(* the row and a row scanned before it                                     *)

\* a payload cut short: text that json.loads does not accept, in which the
\* regular expressions still find a member
CutShortData == <<<<ATTR_DOMAIN, "light">>, <<ATTR_ENTITY_ID, "light.kitchen">>>>

\* the rows scanned before the row that is augmented
AugContextShapes ==
    {[event_type |-> sh[1], entity_id |-> sh[2], state |-> NONE,
      shared_data |-> sh[3], shared_attrs |-> NullStr] :
        sh \in {<<EVENT_STATE_CHANGED, "sensor.front_door", NullStr>>,
                <<EVENT_CALL_SERVICE, NONE, ServiceData>>,
                <<EVENT_CALL_SERVICE, NONE, NullStr>>,
                <<EVENT_CALL_SERVICE, NONE, CutShortData>>,
                <<EVENT_AUTOMATION_TRIGGERED, NONE, AutomationData>>,
                <<EVENT_AUTOMATION_TRIGGERED, NONE, AutomationLightData>>,
                <<EVENT_AUTOMATION_TRIGGERED, NONE, CutShortData>>,
                <<EVENT_SCRIPT_STARTED, NONE, AutomationLightData>>,
                <<EVENT_LOGBOOK_ENTRY, NONE, LogEntityData>>,
                <<EVENT_LOGBOOK_ENTRY, NONE, CutShortData>>}}

AugContextRows ==
    {NoRow} \cup
    {RowAt(sh @@ c @@ [context_only |-> FALSE], 1) :
        sh \in AugContextShapes, c \in Contexts}

\* the rows that are augmented, with the entity id of their entry
AugRows ==
    {RowAt([event_type |-> sh[1], entity_id |-> sh[2], state |-> NONE,
            shared_data |-> sh[3], shared_attrs |-> NullStr]
           @@ c @@ [context_only |-> FALSE], 2) :
        sh \in {<<EVENT_STATE_CHANGED, "light.kitchen", NullStr>>,
                <<EVENT_LOGBOOK_ENTRY, NONE, LogEntityData>>,
                <<EVENT_LOGBOOK_ENTRY, NONE, LogDomainData>>},
        c \in Contexts}

AugEntityIds == {NONE, "light.kitchen"}

InitAugment ==
    /\ InitPass
    /\ keep_args = NoKeepArgs
    /\ kept = "unset"
    /\ InitNoNames
    /\ aug_args \in [entity_id : AugEntityIds, row : AugRows,
                     context_row : AugContextRows]
    /\ aug_result = NoAugResult
    /\ InitNoEvent

\* the context lookup when row r is augmented: yield_rows has scanned the
\* row before it, if there is one, and then r
LookupAt(before, r) ==
    ContextLookupSetDefault(
        IF before = NoRow THEN EmptyLookup
        ELSE ContextLookupSetDefault(EmptyLookup, before),
        r)

\* context_augmenter.augment(data, entity_id, row), lines 386, 394 and 428,
\* on caches that hold nothing yet
CallAugment ==
    /\ ~aug_result.called
    /\ \E aug \in {Augment([NoEntry EXCEPT !.when = FormatTime(aug_args.row),
                                           !.entity_id = aug_args.entity_id],
                            aug_args.entity_id, aug_args.row,
                            LookupAt(aug_args.context_row, aug_args.row),
                            Caches)} :
          aug_result' = [called |-> TRUE, data |-> aug.data,
                         raised |-> aug.cs.raised]
    /\ UNCHANGED <<passvars, runvars, keepvars, namevars, aug_args, eventvars>>

NextAugment == CallAugment

SpecAugment == InitAugment /\ [][NextAugment]_vars

---------------------------------------------------------------------------
(* EventCache.get called on the rows of a pass, and the data of the events *)
(* it returns read afterwards                                              *)

\* the rows whose event is asked for
EventRows ==
    {RowAt([event_type |-> sh[1], entity_id |-> NONE, state |-> NONE,
            shared_data |-> sh[2], shared_attrs |-> NullStr]
           @@ [context_id |-> "c1", context_user_id |-> NONE,
               context_parent_id |-> NONE, context_only |-> FALSE], sh[3]) :
        sh \in {<<EVENT_CALL_SERVICE, ServiceData, 1>>,
                <<EVENT_AUTOMATION_TRIGGERED, AutomationData, 1>>,
                <<EVENT_AUTOMATION_TRIGGERED, AutomationData, 2>>,
                <<EVENT_AUTOMATION_TRIGGERED, EmptyObjectData, 2>>,
                <<EVENT_LOGBOOK_ENTRY, NullStr, 2>>}}

\* event_cache.get(row), lines 391, 413, 579 and 604, up to its return
CallEventCacheGet ==
    /\ \E r \in EventRows :
          \E got \in {EventCacheGet(Caches, r)} :
              /\ ev_row' = r
              /\ event_cache' = got.cs.event_cache
              /\ event_data_cache' = got.cs.event_data_cache
              /\ loads' = got.cs.loads
    /\ UNCHANGED <<pc, entity_ids, context_id, entities_filter,
                   context_lookup, names, continuous_sensors,
                   registry_queries, rows, row, out, src, response, runvars,
                   keepvars, namevars, augvars, data_read>>

\* event.data, lines 414 and 580: the data of an event the cache has
\* returned is read
ReadEventData ==
    /\ \E r \in DOMAIN event_cache : data_read' = data_read \cup {r}
    /\ UNCHANGED <<passvars, runvars, keepvars, namevars, augvars, ev_row>>

NextEvent == CallEventCacheGet \/ ReadEventData

SpecEvent == Init /\ [][NextEvent]_vars

---------------------------------------------------------------------------
(* Vocabulary of the properties *)

\* the row the k-th entry was built from
RowOfEntry(k) == rows[src[k]]

\* row i has been through _humanify, or was never handed to it
Processed(i) == i < Len(rows) \/ pc # "humanify"

\* row i produced an entry
Emitted(i) == \E k \in 1..Len(src) : src[k] = i

\* row i is the first row of the pass that carries its context-id
FirstOccurrence(i) ==
    \A j \in 1..(i - 1) : rows[j].context_id # rows[i].context_id

\* two rows agree on event type, context-id and time fired
SameEvent(a, b) ==
    /\ a.event_type = b.event_type
    /\ a.context_id = b.context_id
    /\ a.time_fired = b.time_fired

\* when row i is augmented, its parent context-id resolves to a row that is
\* not row i's own event
DistinctParentResolves(i) ==
    /\ Truthy(rows[i].context_parent_id)
    /\ \E j \in 1..i :
          /\ rows[j].context_id = rows[i].context_parent_id
          /\ \A h \in 1..(j - 1) : rows[h].context_id # rows[j].context_id
          /\ ~SameEvent(rows[i], rows[j])

\* the entry says nothing of what caused it
NoAttribution(e) ==
    /\ e.context_entity_id = ABSENT
    /\ e.context_entity_id_name = ABSENT
    /\ e.context_event_type = ABSENT
    /\ e.context_domain = ABSENT
    /\ e.context_service = ABSENT
    /\ e.context_name = ABSENT

---------------------------------------------------------------------------
(* C1 *)

\* C1 as claimed: an entry whose row is the first occurrence of its
\* context-id and has no distinct resolvable parent carries no context field
\* at all, context_user_id included.
C1_NoContextFieldAtAll ==
    \A k \in 1..Len(out) :
        (/\ Truthy(RowOfEntry(k).context_id)
         /\ FirstOccurrence(src[k])
         /\ ~DistinctParentResolves(src[k]))
        => NoAttribution(out[k]) /\ out[k].context_user_id = ABSENT

\* C1 as amended: an entry whose row is the first occurrence of its
\* context-id and has no distinct resolvable parent is attributed to nothing:
\* of the context fields it carries at most context_user_id, which is the
\* row's own.
C1_NoSelfAttribution ==
    \A k \in 1..Len(out) :
        (/\ Truthy(RowOfEntry(k).context_id)
         /\ FirstOccurrence(src[k])
         /\ ~DistinctParentResolves(src[k]))
        => /\ NoAttribution(out[k])
           /\ out[k].context_user_id \in {ABSENT, RowOfEntry(k).context_user_id}

C1_Witness ==
    \E k \in 1..Len(out) :
        /\ RowOfEntry(k).event_type = EVENT_STATE_CHANGED
        /\ Truthy(RowOfEntry(k).context_id)
        /\ FirstOccurrence(src[k])
        /\ ~DistinctParentResolves(src[k])
        /\ Truthy(RowOfEntry(k).context_parent_id)
        /\ NoAttribution(out[k])

---------------------------------------------------------------------------
(* C2 *)

\* C2: rows with the same raw payload string get equal decoded mappings, and
\* json.loads runs at most once for each distinct raw payload string.
C2_DecodeOncePerString ==
    /\ \A r1 \in DOMAIN event_cache, r2 \in DOMAIN event_cache :
          r1.shared_data = r2.shared_data
          => event_cache[r1].data = event_cache[r2].data
    /\ \A i \in 1..Len(loads), j \in 1..Len(loads) :
          loads[i] = loads[j] => i = j

---------------------------------------------------------------------------
(* C3 *)

\* the entity id the filter extracts from the payload of the call
KeepEntityId == JsonExtract(keep_args.shared_data, ATTR_ENTITY_ID)

\* the filter of the call is absent or accepts id
KeepFilterAccepts(id) ==
    keep_args.filter = NoFilter \/ id \in keep_args.filter

\* C3 as claimed: for a row with an extractable entity id the row is kept
\* iff the filter is absent or accepts that id, for every event type.
C3_KeepByEntityIdAnyType ==
    (kept # "unset" /\ KeepEntityId # NONE)
    => (kept = "keep" <=> KeepFilterAccepts(KeepEntityId))

\* C3 as amended: for a row of any event type but the system start and stop
\* types, with an extractable entity id, the row is kept iff the filter is
\* absent or accepts that id; a start or stop row is kept iff the filter is
\* absent or accepts homeassistant._, whatever its payload.
C3_KeepByEntityId ==
    (kept # "unset" /\ KeepEntityId # NONE)
    => (kept = "keep" <=>
            IF keep_args.event_type \in HOMEASSISTANT_EVENTS
            THEN KeepFilterAccepts(HA_DOMAIN_ENTITY_ID)
            ELSE KeepFilterAccepts(KeepEntityId))

C3_Witness ==
    /\ kept = "drop"
    /\ keep_args.event_type = EVENT_AUTOMATION_TRIGGERED
    /\ KeepEntityId = "light.kitchen"
    /\ keep_args.filter = {"light._", "automation._"}

---------------------------------------------------------------------------
(* C4 *)

\* row i is a state change of a sensor
SensorRow(i) ==
    /\ rows[i].event_type = EVENT_STATE_CHANGED
    /\ rows[i].entity_id # NONE
    /\ SplitEntityId(rows[i].entity_id)[1] = SENSOR_DOMAIN

\* C4: no entry is built from a state change of a sensor that the entity
\* registry gives a state class, and every state change of any other sensor
\* that is not context-only produces an entry.
C4_ContinuousSensorsSkipped ==
    \A i \in 1..Len(rows) :
        SensorRow(i) =>
            IF rows[i].entity_id \in StateClassEntities
            THEN ~Emitted(i)
            ELSE (Processed(i) /\ ~rows[i].context_only) => Emitted(i)

C4_Witness ==
    /\ pc = "done"
    /\ \E i \in 1..Len(rows), j \in 1..Len(rows) :
          /\ SensorRow(i) /\ SensorRow(j)
          /\ rows[i].entity_id \in StateClassEntities
          /\ ~rows[i].context_only
          /\ ~Emitted(i)
          /\ rows[j].entity_id \notin StateClassEntities
          /\ Emitted(j)

---------------------------------------------------------------------------
(* C5 *)

\* C5: the context lookup holds exactly the context-ids of the rows scanned
\* so far (and the None key, which stays None), each mapped to the first row
\* that carried it; nothing else, augmentation included, changes it.
C5_FirstSeenWins ==
    /\ DOMAIN context_lookup =
           {NONE} \cup {rows[i].context_id : i \in 1..Len(rows)}
    /\ context_lookup[NONE] = NoRow
    /\ \A i \in 1..Len(rows) :
          (rows[i].context_id # NONE /\ FirstOccurrence(i))
          => context_lookup[rows[i].context_id] = rows[i]

C5_Witness ==
    /\ Len(rows) = 2
    /\ rows[1].context_id = rows[2].context_id
    /\ rows[1].context_id # NONE
    /\ rows[1] # rows[2]
    /\ Len(out) = 2
    /\ context_lookup[rows[2].context_id] = rows[1]

---------------------------------------------------------------------------
(* C6 *)

\* C6: a context-only row produces no entry, of whatever event type, and its
\* context-id is in the context lookup, mapped to that row when no earlier
\* row carried the id.
C6_ContextOnlySeedsOnly ==
    \A i \in 1..Len(rows) :
        rows[i].context_only =>
            /\ ~Emitted(i)
            /\ rows[i].context_id \in DOMAIN context_lookup
            /\ (rows[i].context_id # NONE /\ FirstOccurrence(i))
               => context_lookup[rows[i].context_id] = rows[i]

C6_Witness ==
    /\ Len(rows) = 2
    /\ rows[1].context_only
    /\ rows[1].event_type = EVENT_AUTOMATION_TRIGGERED
    /\ Len(out) = 1
    /\ src[1] = 2
    /\ rows[2].context_id = rows[1].context_id
    /\ out[1].context_event_type = EVENT_AUTOMATION_TRIGGERED

---------------------------------------------------------------------------
(* C7 *)

---------------------------------------------------------------------------
(* C8 *)

\* the first row of the pass that carries context-id c is row j
FirstCarrier(c, j) ==
    /\ rows[j].context_id = c
    /\ \A h \in 1..(j - 1) : rows[h].context_id # c

\* C8: no service-call row produces an entry, and the entry of a state
\* change whose context-id was first carried by a service-call row without
\* entity id has the domain and the service of that call's payload as
\* context_domain and context_service, and call_service as
\* context_event_type.
C8_ServiceCallContext ==
    /\ \A i \in 1..Len(rows) :
          rows[i].event_type = EVENT_CALL_SERVICE => ~Emitted(i)
    /\ \A k \in 1..Len(out) : \A j \in 1..(src[k] - 1) :
          (/\ RowOfEntry(k).event_type = EVENT_STATE_CHANGED
           /\ RowOfEntry(k).context_id # NONE
           /\ FirstCarrier(RowOfEntry(k).context_id, j)
           /\ rows[j].event_type = EVENT_CALL_SERVICE
           /\ rows[j].entity_id = NONE)
          => /\ out[k].context_domain = JsonExtract(rows[j].shared_data, ATTR_DOMAIN)
             /\ out[k].context_service = JsonExtract(rows[j].shared_data, ATTR_SERVICE)
             /\ out[k].context_event_type = EVENT_CALL_SERVICE

C8_Witness ==
    /\ Len(rows) = 2
    /\ rows[1].event_type = EVENT_CALL_SERVICE
    /\ rows[1].context_id = "c1"
    /\ rows[2].context_id = "c1"
    /\ rows[2].entity_id = "light.kitchen"
    /\ Len(out) = 1
    /\ out[1].entity_id = "light.kitchen"
    /\ out[1].context_domain = "light"
    /\ out[1].context_service = "turn_on"
    /\ out[1].context_event_type = EVENT_CALL_SERVICE

---------------------------------------------------------------------------
(* C9 *)

\* row i is a system start or stop row that yield_rows keeps
KeptLifecycleRow(i) ==
    /\ rows[i].event_type \in HOMEASSISTANT_EVENTS
    /\ ~rows[i].context_only
    /\ entities_filter = NoFilter \/ HA_DOMAIN_ENTITY_ID \in entities_filter

\* the entry expected of a system start or stop row
LifecycleEntry(r) ==
    [NoEntry EXCEPT
        !.when = r.time_fired,
        !.name = "Home Assistant",
        !.message = IF r.event_type = EVENT_HOMEASSISTANT_START
                    THEN "started" ELSE "stopped",
        !.domain = "homeassistant"]

---------------------------------------------------------------------------
(* C10 *)

\* C10: a request that gives both entity_ids and context_id has failed, with
\* a bad request or the failed assertion, without a row fetched, a cache
\* entry made or an entry produced.
C10_BothArgumentsRejected ==
    (entity_ids # <<>> /\ context_id # NONE /\ context_id # "")
    => /\ pc = "failed"
       /\ response \in {"BAD_REQUEST", "AssertionError"}
       /\ rows = <<>>
       /\ out = <<>>
       /\ context_lookup = EmptyLookup
       /\ names = EmptyMap
       /\ event_cache = EmptyMap
       /\ event_data_cache = EmptyMap
       /\ continuous_sensors = EmptyMap
       /\ loads = <<>>

C10_Witness ==
    /\ entity_ids = <<"light.kitchen">>
    /\ context_id = "c1"
    /\ response = "AssertionError"

---------------------------------------------------------------------------
(* C11 *)

\* the entity of the call has a friendly name in the live states
HasLiveName(e) ==
    e \in DOMAIN LiveFriendlyNames /\ Truthy(LiveFriendlyNames[e])

\* the name the priority order gives entity e with a row of attributes a
PriorityName(e, a) ==
    IF HasLiveName(e) THEN LiveFriendlyNames[e]
    ELSE IF Truthy(JsonExtract(a, ATTR_FRIENDLY_NAME))
    THEN JsonExtract(a, ATTR_FRIENDLY_NAME)
    ELSE ReplaceUnderscores(SplitEntityId(e)[2])

\* C11 as claimed: every call of EntityNameCache.get returns the live
\* friendly name if there is one, else the friendly_name of the attributes
\* of the row it is given, else the object id with spaces for underscores.
C11_PriorityOfGivenRow ==
    named # "unset"
    => named = PriorityName(name_args.entity_id, name_args.shared_attrs)

\* C11 as amended: a call for an entity id that has no memoized name returns
\* the name of that priority order; a call for an entity id that has one
\* returns the memoized name, whatever the row it is given holds.
C11_PriorityOnMiss ==
    named # "unset"
    => named = IF name_args.entity_id \in DOMAIN name_args.names
               THEN name_args.names[name_args.entity_id]
               ELSE PriorityName(name_args.entity_id, name_args.shared_attrs)

\* C11: the three sources have each given a name: the live state over a row
\* with a friendly_name, the row, and the object id
C11_Witness ==
    /\ first_named = [e \in NameEntities |->
                         CASE e = "sensor.front_door" -> "Front Door (live)"
                           [] e = "light.kitchen" -> "Kitchen Light"
                           [] e = "sensor.power" -> "power"]
    /\ name_args.entity_id = "sensor.front_door"
    /\ name_args.shared_attrs = NamedAttrs
    /\ "sensor.front_door" \notin DOMAIN name_args.names
    /\ named = "Front Door (live)"

---------------------------------------------------------------------------
(* C12 *)

\* C12: every call of EntityNameCache.get for an entity id returns the name
\* the first call for that entity id returned.
C12_NameMemoized ==
    named # "unset" => named = first_named[name_args.entity_id]

---------------------------------------------------------------------------
(* C13 *)

\* C13: no call of augment raises, whatever the entry, the row and the
\* context lookup.
C13_AugmentNeverFails ==
    aug_result.called => ~aug_result.raised

---------------------------------------------------------------------------
(* C14 *)

\* row i is of a type _humanify has a branch for
HandledType(i) ==
    \/ rows[i].event_type = EVENT_STATE_CHANGED
    \/ rows[i].event_type \in DOMAIN external_events
    \/ rows[i].event_type \in HOMEASSISTANT_EVENTS
    \/ rows[i].event_type = EVENT_LOGBOOK_ENTRY

\* C14: the entries are in the order of the rows they were built from, each
\* row has at most one entry, the row _humanify works on is the last row
\* scanned, and a row that is context-only, a service call, dropped by the
\* row filter, a state change of a continuous sensor or of a type without a
\* branch has none.
C14_EntriesInRowOrder ==
    /\ Len(src) = Len(out)
    /\ \A k \in 1..Len(src) :
          /\ src[k] \in 1..Len(rows)
          /\ out[k].when = rows[src[k]].time_fired
    /\ \A k \in 1..Len(src) : \A l \in 1..Len(src) : k < l => src[k] < src[l]
    /\ pc = "humanify" => rows # <<>> /\ row = rows[Len(rows)]
    /\ \A i \in 1..Len(rows) :
          (\/ rows[i].context_only
           \/ rows[i].event_type = EVENT_CALL_SERVICE
           \/ ~YieldsRow(rows[i], entities_filter)
           \/ (SensorRow(i) /\ rows[i].entity_id \in StateClassEntities)
           \/ ~HandledType(i))
          => ~Emitted(i)

\* C14: a pass of two rows that each gave an entry, and a pass whose first
\* row, of a type without a branch, was handed to _humanify and gave none
C14_Witness ==
    /\ pc = "done"
    /\ Len(rows) = 2
    /\ \/ /\ src = <<1, 2>>
          /\ rows[1].event_type = EVENT_LOGBOOK_ENTRY
          /\ rows[2].event_type = EVENT_STATE_CHANGED
          /\ rows[1].time_fired = rows[2].time_fired
       \/ /\ src = <<2>>
          /\ rows[1].event_type = EVENT_SCRIPT_STARTED
          /\ YieldsRow(rows[1], entities_filter)

---------------------------------------------------------------------------
(* C15 *)

\* C15: an entry that is attributed is attributed to a row scanned before
\* its own row, one that carries the context-id or the parent context-id of
\* its row; an entry whose row is the first to carry its context-id, and
\* whose parent context-id is first carried by a row that comes later, is not
\* attributed.
C15_ContextFromEarlierRowsOnly ==
    /\ \A k \in 1..Len(out) :
          ~NoAttribution(out[k])
          => \E j \in 1..src[k] :
                /\ rows[j].context_id # NONE
                /\ rows[j].context_id \in {RowOfEntry(k).context_id,
                                           RowOfEntry(k).context_parent_id}
                /\ ~SameEvent(RowOfEntry(k), rows[j])
                /\ out[k].context_event_type = rows[j].event_type
    /\ \A k \in 1..Len(out) : \A l \in (src[k] + 1)..Len(rows) :
          (/\ FirstOccurrence(src[k])
           /\ Truthy(RowOfEntry(k).context_parent_id)
           /\ FirstCarrier(RowOfEntry(k).context_parent_id, l))
          => NoAttribution(out[k])

\* C15: the parent context-id of the first row is carried by the second
\* row, a state change, and the entry of the first row is not attributed
C15_Witness ==
    /\ pc = "done"
    /\ Len(rows) = 2
    /\ src = <<1, 2>>
    /\ rows[1].event_type = EVENT_STATE_CHANGED
    /\ rows[1].context_parent_id = "c1"
    /\ rows[2].context_id = "c1"
    /\ rows[2].event_type = EVENT_STATE_CHANGED
    /\ rows[2].entity_id = "sensor.front_door"
    /\ NoAttribution(out[1])

---------------------------------------------------------------------------
(* C16 *)

\* the domain the filter determines for the row of the call: that of the
\* describer registered for the event type, else that of the payload
KeepDomain ==
    IF keep_args.event_type \in DOMAIN external_events
    THEN external_events[keep_args.event_type]
    ELSE JsonExtract(keep_args.shared_data, ATTR_DOMAIN)

\* C16: a row that is not a start or stop row and has no extractable entity
\* id is kept iff a domain is determined and the filter is absent or accepts
\* <domain>._; with no domain it is dropped, filter or no filter.
C16_KeepByDomain ==
    (/\ kept # "unset"
     /\ keep_args.event_type \notin HOMEASSISTANT_EVENTS
     /\ KeepEntityId = NONE)
    => (kept = "keep" <=>
            /\ KeepDomain # NONE
            /\ KeepFilterAccepts(DomainEntityId(KeepDomain)))

\* C16: a script_started row with neither entity id nor domain is dropped
\* though there is no filter
C16_Witness ==
    /\ kept = "drop"
    /\ keep_args.event_type = EVENT_SCRIPT_STARTED
    /\ keep_args.shared_data = EmptyObjectData
    /\ keep_args.filter = NoFilter

---------------------------------------------------------------------------
(* C17 *)

\* row i is a state change without entity id that is not context-only
NoEntityStateChange(i) ==
    /\ rows[i].event_type = EVENT_STATE_CHANGED
    /\ rows[i].entity_id = NONE
    /\ ~rows[i].context_only

\* C17: once _humanify has had a state change without entity id that is not
\* context-only, the pass has failed on the assertion: the row has no entry,
\* no row is scanned after it, and the request returns the failure and not
\* a list of entries.
C17_MissingEntityIdAborts ==
    \A i \in 1..Len(rows) :
        (NoEntityStateChange(i) /\ Processed(i))
        => /\ pc = "failed"
           /\ response = "AssertionError"
           /\ i = Len(rows)
           /\ ~Emitted(i)

\* C17: the second row fails the assertion after the first has had its
\* entry built
C17_Witness ==
    /\ Len(rows) = 2
    /\ NoEntityStateChange(2)
    /\ Emitted(1)
    /\ pc = "failed"
    /\ response = "AssertionError"

---------------------------------------------------------------------------
(* C18 *)

\* context_lookup when yield_rows has scanned the rows up to row i
RECURSIVE LookupUpTo(_)
LookupUpTo(i) ==
    IF i = 0 THEN EmptyLookup
    ELSE ContextLookupSetDefault(LookupUpTo(i - 1), rows[i])

\* the context row augment settles on for the k-th entry, NoRow if none
EffectiveContextRow(k) == ContextRowOf(LookupUpTo(src[k]), RowOfEntry(k))

\* the k-th entry has an entity id
HasEntityId(k) == out[k].entity_id \notin {ABSENT, NONE, ""}

\* the context row c is an event that is no service call
OtherEvent(c) ==
    /\ c # NoRow
    /\ ~Truthy(c.entity_id)
    /\ c.event_type # EVENT_CALL_SERVICE

---------------------------------------------------------------------------
(* C19 *)

\* the row of the k-th entry is of a type whose entry is augmented
AugmentedType(k) ==
    \/ RowOfEntry(k).event_type = EVENT_STATE_CHANGED
    \/ RowOfEntry(k).event_type \in DOMAIN external_events
    \/ RowOfEntry(k).event_type = EVENT_LOGBOOK_ENTRY

\* C19: the entry of a state change, a described event or a logbook entry
\* whose row has a context user id has that id as context_user_id, whatever
\* else augment does.
C19_ContextUserIdCopied ==
    \A k \in 1..Len(out) :
        (AugmentedType(k) /\ Truthy(RowOfEntry(k).context_user_id))
        => out[k].context_user_id = RowOfEntry(k).context_user_id

\* C19: two rows of one context and user, the first its own context root,
\* the second, a described event, attributed to the first
C19_Witness ==
    /\ Len(rows) = 2
    /\ src = <<1, 2>>
    /\ rows[1].context_id = "c1"
    /\ rows[2].context_id = "c1"
    /\ rows[2].event_type = EVENT_AUTOMATION_TRIGGERED
    /\ out[1].context_user_id = "u1"
    /\ NoAttribution(out[1])
    /\ out[2].context_user_id = "u1"
    /\ ~NoAttribution(out[2])

---------------------------------------------------------------------------
(* C20 *)

\* C20: an entry without entity id whose context row is an event that is no
\* service call is not attributed, whatever that event's payload names.
C20_EntityLessNotAttributed ==
    \A k \in 1..Len(out) :
        LET Of(c) == (OtherEvent(c) /\ ~HasEntityId(k)) => NoAttribution(out[k])
        IN  Of(EffectiveContextRow(k))

\* C20: a logbook entry with a domain and no entity id, in the context of an
\* automation_triggered event that names light.kitchen
C20_Witness ==
    /\ Len(rows) = 2
    /\ src = <<1, 2>>
    /\ rows[1].event_type = EVENT_AUTOMATION_TRIGGERED
    /\ rows[1].shared_data = AutomationLightData
    /\ rows[2].event_type = EVENT_LOGBOOK_ENTRY
    /\ rows[2].shared_data = LogDomainData
    /\ EffectiveContextRow(2) = rows[1]
    /\ out[2].entity_id = NONE
    /\ NoAttribution(out[2])

---------------------------------------------------------------------------
(* C21 *)

\* C21: json.loads is given the payload of a row only once the data of that
\* row's event has been read: building the event decodes nothing, and the
\* payload of a row whose event's data is never read is never decoded.
C21_DecodeDeferred ==
    \A i \in 1..Len(loads) : \E r \in data_read : r.shared_data = loads[i]

---------------------------------------------------------------------------
(* C22 *)

\* row i is a state change with an entity id that yield_rows hands on
StateChangeOf(i, e) ==
    /\ rows[i].event_type = EVENT_STATE_CHANGED
    /\ rows[i].entity_id = e
    /\ ~rows[i].context_only

\* C22: in a pass the registry is asked at most once about an entity id and
\* only about sensors, the answers it gave are the ones remembered, and the
\* state changes of one entity id are all skipped or all given an entry.
C22_ClassifiedOncePerEntity ==
    /\ \A i \in 1..Len(registry_queries), j \in 1..Len(registry_queries) :
          registry_queries[i] = registry_queries[j] => i = j
    /\ \A i \in 1..Len(registry_queries) :
          SplitEntityId(registry_queries[i])[1] = SENSOR_DOMAIN
    /\ DOMAIN continuous_sensors =
           {registry_queries[i] : i \in 1..Len(registry_queries)}
    /\ \A e \in EntityIds : \A i \in 1..Len(rows), j \in 1..Len(rows) :
          (/\ StateChangeOf(i, e) /\ Processed(i)
           /\ StateChangeOf(j, e) /\ Processed(j))
          => (Emitted(i) <=> Emitted(j))

\* C22: two state changes of one sensor, with different attributes, have
\* been through _humanify and the registry was asked once
C22_Witness ==
    /\ pc = "done"
    /\ Len(rows) = 2
    /\ StateChangeOf(1, "sensor.power")
    /\ StateChangeOf(2, "sensor.power")
    /\ rows[1].context_id # rows[2].context_id
    /\ registry_queries = <<"sensor.power">>
    /\ out = <<>>

---------------------------------------------------------------------------
(* C23 *)

\* the first of the rows scanned up to the row of the k-th entry that
\* carries context-id c; NoRow if c is None or no such row carries it
FirstSeenRow(k, c) ==
    IF c = NONE \/ \A j \in 1..src[k] : rows[j].context_id # c THEN NoRow
    ELSE rows[CHOOSE j \in 1..src[k] : FirstCarrier(c, j)]

\* the context row one hop allows the k-th entry: the first-seen row of its
\* row's context-id, or, the row being that row's event (same event type,
\* context-id and time fired), the first-seen row of the parent context-id
\* unless that is the row's event again
OneHopContextRow(k) ==
    LET Settle(r, own, parent) ==
            IF own = NoRow THEN NoRow
            ELSE IF ~SameEvent(r, own) THEN own
            ELSE IF parent = NoRow \/ SameEvent(r, parent) THEN NoRow
            ELSE parent
    IN  Settle(RowOfEntry(k), FirstSeenRow(k, RowOfEntry(k).context_id),
               FirstSeenRow(k, RowOfEntry(k).context_parent_id))

\* the entity a context row stands for: its own, or the one its payload names
ContextEntityOf(c) ==
    IF Truthy(c.entity_id) THEN c.entity_id
    ELSE JsonExtract(c.shared_data, ATTR_ENTITY_ID)

\* C23: the context row of an augmented entry is the first-seen row of its
\* row's own context-id or, only when the row is that row's event, the
\* first-seen row of its parent context-id, never a row further up: the
\* entry is attributed to that row or to none, also when the context-ids and
\* the parent context-ids of the rows form a cycle.
C23_AtMostOneParentHop ==
    \A k \in 1..Len(out) :
        LET From(c) ==
                IF c = NoRow THEN NoAttribution(out[k])
                ELSE /\ out[k].context_event_type \in {ABSENT, c.event_type}
                     /\ out[k].context_entity_id \in {ABSENT, ContextEntityOf(c)}
                     /\ (Truthy(c.entity_id) \/ c.event_type = EVENT_CALL_SERVICE)
                        => out[k].context_event_type = c.event_type
        IN  AugmentedType(k)
            => /\ EffectiveContextRow(k) = OneHopContextRow(k)
               /\ From(OneHopContextRow(k))

\* C23: two state changes whose context-ids are each the other's parent:
\* the pass has ended, the first entry is attributed to nothing and the
\* second to the first row
C23_Witness ==
    /\ pc = "done"
    /\ Len(rows) = 2
    /\ src = <<1, 2>>
    /\ rows[1].context_id = "c1" /\ rows[1].context_parent_id = "c2"
    /\ rows[2].context_id = "c2" /\ rows[2].context_parent_id = "c1"
    /\ rows[1].entity_id = "sensor.front_door"
    /\ rows[2].entity_id = "light.kitchen"
    /\ NoAttribution(out[1])
    /\ out[2].context_entity_id = "sensor.front_door"

---------------------------------------------------------------------------
(* C24 *)

\* C24: a service-call row is never handed to _humanify and has no entry,
\* whatever the filter and though a describer is registered for the
\* service-call type; its context-id is in the context lookup, mapped to the
\* row when no earlier row carried the id.
C24_ServiceCallsSeedOnly ==
    /\ pc = "humanify" => row.event_type # EVENT_CALL_SERVICE
    /\ \A k \in 1..Len(out) : RowOfEntry(k).event_type # EVENT_CALL_SERVICE
    /\ \A i \in 1..Len(rows) :
          rows[i].event_type = EVENT_CALL_SERVICE
          => /\ rows[i].context_id \in DOMAIN context_lookup
             /\ (rows[i].context_id # NONE /\ FirstOccurrence(i))
                => context_lookup[rows[i].context_id] = rows[i]

\* C24: a service call that has a describer and that the row filter would
\* keep has no entry, and the logbook entry after it is attributed to it
C24_Witness ==
    /\ pc = "done"
    /\ EVENT_CALL_SERVICE \in DOMAIN external_events
    /\ Len(rows) = 2
    /\ rows[1].event_type = EVENT_CALL_SERVICE
    /\ ~rows[1].context_only
    /\ KeepRow(EVENT_CALL_SERVICE, rows[1], entities_filter)
    /\ rows[2].event_type = EVENT_LOGBOOK_ENTRY
    /\ src = <<2>>
    /\ out[1].context_event_type = EVENT_CALL_SERVICE
    /\ out[1].context_service = "turn_on"

====
